---- MODULE Spec2Model ----
(***************************************************************************)
(* A model of the Chip 8 assembler (craigthomas/Chip8Assembler).           *)
(*                                                                         *)
(* One run of assembler.py's main() is a behaviour: the file is read line  *)
(* by line into Statements (parse_file), then translate_statements,        *)
(* set_addresses and fix_opcodes walk the statement list, and              *)
(* save_binary_file converts the op codes to bytes and writes them.  Each  *)
(* iteration of each of these loops is one step.  Python strings are TLA+  *)
(* strings, taken apart with Len and SubSeq; Python's None is the string   *)
(* None below, which no field can hold otherwise.                          *)
(***************************************************************************)
EXTENDS Integers, Sequences, FiniteSets, TLC

\* ------------------------------------------------------------------------
\* Python strings
\* ------------------------------------------------------------------------

\* Python's None.  Every string field of a Statement is cut from a line of
\* the file or made of hexadecimal digits, so none of them holds a newline
\* followed by text.
None == "\nNone"

Min(a, b) == IF a < b THEN a ELSE b

Max(a, b) == IF a < b THEN b ELSE a

\* s[i], counting from 1
Char(s, i) == SubSeq(s, i, i)

\* s[a:b] of Python, a and b counting from 0, b cut to the length of s
Slice(s, a, b) == SubSeq(s, a + 1, Min(b, Len(s)))

\* s[a:] of Python
SliceFrom(s, a) == SubSeq(s, a + 1, Len(s))

StartsWith(s, prefix) == Len(s) >= Len(prefix) /\ SubSeq(s, 1, Len(prefix)) = prefix

LowerLetters == "abcdefghijklmnopqrstuvwxyz"

UpperLetters == "ABCDEFGHIJKLMNOPQRSTUVWXYZ"

Digits == "0123456789"

CharsOf(s) == {Char(s, i) : i \in 1..Len(s)}

\* \w of the re module, on ASCII text
WordChars == CharsOf(LowerLetters) \cup CharsOf(UpperLetters) \cup CharsOf(Digits) \cup {"_"}

\* \s of the re module, on ASCII text
SpaceChars == {" ", "\t", "\n", "\r", "\f"}

\* [\w$,+-] of ASM_LINE_REGEX
OperandChars == WordChars \cup {"$", ",", "+", "-"}

\* the position of character c in string s, 0 when it is not there
IndexIn(s, c) == IF \E i \in 1..Len(s) : Char(s, i) = c
                 THEN CHOOSE i \in 1..Len(s) : Char(s, i) = c
                 ELSE 0

UpperChar(c) == IF IndexIn(LowerLetters, c) > 0
                THEN Char(UpperLetters, IndexIn(LowerLetters, c))
                ELSE c

LowerChar(c) == IF IndexIn(UpperLetters, c) > 0
                THEN Char(LowerLetters, IndexIn(UpperLetters, c))
                ELSE c

RECURSIVE Upper(_)
\* str.upper
Upper(s) == IF s = "" THEN "" ELSE UpperChar(Char(s, 1)) \o Upper(SliceFrom(s, 1))

\* the number of characters of s from position p (counting from 1) on that
\* lie in class: the longest match of class* at p
RECURSIVE Run(_, _, _)
Run(s, p, class) == IF p <= Len(s) /\ Char(s, p) \in class
                    THEN 1 + Run(s, p + 1, class)
                    ELSE 0

\* str.strip
Strip(s) ==
    LET lead == Run(s, 1, SpaceChars)
        last == IF \E j \in 1..Len(s) : Char(s, j) \notin SpaceChars
                THEN CHOOSE j \in 1..Len(s) :
                        /\ Char(s, j) \notin SpaceChars
                        /\ \A k \in (j + 1)..Len(s) : Char(s, k) \in SpaceChars
                ELSE 0
    IN  SubSeq(s, lead + 1, last)

\* str.split(sep) for a one-character separator: the list of the pieces
RECURSIVE Split(_, _)
Split(s, sep) ==
    IF IndexIn(s, sep) = 0 THEN <<s>>
    ELSE <<SubSeq(s, 1, IndexIn(s, sep) - 1)>> \o Split(SliceFrom(s, IndexIn(s, sep)), sep)

\* str.replace(old, new): every occurrence of old, left to right, without overlap
RECURSIVE Replace(_, _, _)
Replace(s, old, new) ==
    IF Len(s) < Len(old) \/ old = "" THEN s
    ELSE IF StartsWith(s, old)
         THEN new \o Replace(SliceFrom(s, Len(old)), old, new)
         ELSE Char(s, 1) \o Replace(SliceFrom(s, 1), old, new)

\* c * n of Python
RECURSIVE Repeat(_, _)
Repeat(c, n) == IF n <= 0 THEN "" ELSE c \o Repeat(c, n - 1)

\* str.zfill(width): zeros on the left, after a leading sign
ZFill(s, width) ==
    IF Len(s) >= width THEN s
    ELSE IF s # "" /\ Char(s, 1) \in {"+", "-"}
         THEN Char(s, 1) \o Repeat("0", width - Len(s)) \o SliceFrom(s, 1)
         ELSE Repeat("0", width - Len(s)) \o s

\* ------------------------------------------------------------------------
\* Python numbers and values
\* ------------------------------------------------------------------------

HexDigitsLower == "0123456789abcdef"

\* [0-9a-fA-F]
HexChars == CharsOf(HexDigitsLower) \cup CharsOf("ABCDEF")

DigitValue(c) == IndexIn(HexDigitsLower, LowerChar(c)) - 1

\* the digits of int(s, 16) once sign and prefix are gone: hexadecimal digits,
\* single underscores allowed between two digits
ValidDigits(d) ==
    /\ d # ""
    /\ \A k \in 1..Len(d) : Char(d, k) \in HexChars \cup {"_"}
    /\ Char(d, 1) # "_"
    /\ Char(d, Len(d)) # "_"
    /\ \A k \in 1..(Len(d) - 1) : ~(Char(d, k) = "_" /\ Char(d, k + 1) = "_")

RECURSIVE DigitsValue(_, _)
DigitsValue(d, acc) ==
    IF d = "" THEN acc
    ELSE IF Char(d, 1) = "_" THEN DigitsValue(SliceFrom(d, 1), acc)
         ELSE DigitsValue(SliceFrom(d, 1), 16 * acc + DigitValue(Char(d, 1)))

\* int(d, 16) for d without sign or prefix; [ok |-> FALSE] stands for the
\* ValueError Python raises
IntDigits(d) == IF ValidDigits(d) THEN [ok |-> TRUE, value |-> DigitsValue(d, 0)]
                ELSE [ok |-> FALSE, value |-> 0]

\* int(u, 16) for u without sign: a 0x prefix, and one underscore after it,
\* are accepted
IntUnsigned(u) ==
    IF Len(u) >= 2 /\ Char(u, 1) = "0" /\ Char(u, 2) \in {"x", "X"}
    THEN IF Len(u) >= 3 /\ Char(u, 3) = "_" THEN IntDigits(SliceFrom(u, 3))
         ELSE IntDigits(SliceFrom(u, 2))
    ELSE IntDigits(u)

Negated(n) == [ok |-> n.ok, value |-> 0 - n.value]

\* int(t, 16) for t without surrounding white space
IntSigned(t) ==
    IF t # "" /\ Char(t, 1) = "-" THEN Negated(IntUnsigned(SliceFrom(t, 1)))
    ELSE IF t # "" /\ Char(t, 1) = "+" THEN IntUnsigned(SliceFrom(t, 1))
    ELSE IntUnsigned(t)

\* int(s, 16): surrounding white space is dropped
Int16(s) == IntSigned(Strip(s))

RECURSIVE HexDigitsOf(_)
\* the hexadecimal digits of n > 0, lower case, no leading zero
HexDigitsOf(n) == IF n = 0 THEN ""
                  ELSE HexDigitsOf(n \div 16) \o Char(HexDigitsLower, (n % 16) + 1)

\* hex(n)
Hex(n) == IF n = 0 THEN "0x0"
          ELSE IF n < 0 THEN "-0x" \o HexDigitsOf(0 - n)
          ELSE "0x" \o HexDigitsOf(n)

\* A value of the symbol table: translate_statements stores an int (the
\* statement's index), set_addresses a str (hex of the address).
PyInt(n) == [type |-> "int", int |-> n, str |-> ""]

PyStr(s) == [type |-> "str", int |-> 0, str |-> s]

\* ------------------------------------------------------------------------
\* statement.py: constants
\* ------------------------------------------------------------------------

SOURCE_REG == "s"

TARGET_REG == "t"

NUMERIC_REG == "n"

Operation(op, operands, source, target, numeric, mnemonic) ==
    [mnemonic |-> mnemonic, op |-> op, operands |-> operands,
     source |-> source, target |-> target, numeric |-> numeric]

OPERATIONS == <<
    Operation("0nnn", 1, 0, 0, 3, "SYS"),
    Operation("00E0", 0, 0, 0, 0, "CLR"),
    Operation("00EE", 0, 0, 0, 0, "RTS"),
    Operation("1nnn", 1, 0, 0, 3, "JUMP"),
    Operation("2nnn", 1, 0, 0, 3, "CALL"),
    Operation("3snn", 2, 1, 0, 2, "SKE"),
    Operation("4snn", 2, 1, 0, 2, "SKNE"),
    Operation("5st0", 2, 1, 1, 0, "SKRE"),
    Operation("6snn", 2, 1, 0, 2, "LOAD"),
    Operation("7snn", 2, 1, 0, 2, "ADD"),
    Operation("8st0", 2, 1, 1, 0, "MOVE"),
    Operation("8st1", 2, 1, 1, 0, "OR"),
    Operation("8st2", 2, 1, 1, 0, "AND"),
    Operation("8st3", 2, 1, 1, 0, "XOR"),
    Operation("8st4", 2, 1, 1, 0, "ADDR"),
    Operation("8st5", 2, 1, 1, 0, "SUB"),
    Operation("8st6", 1, 1, 1, 0, "SHR"),
    Operation("8st7", 2, 1, 1, 0, "SUBN"),
    Operation("8stE", 1, 1, 1, 0, "SHL"),
    Operation("9st0", 2, 1, 1, 0, "SKRNE"),
    Operation("Annn", 1, 0, 0, 3, "LOADI"),
    Operation("Bnnn", 1, 0, 0, 3, "JUMPI"),
    Operation("Ctnn", 2, 0, 1, 2, "RAND"),
    Operation("Dstn", 3, 1, 1, 1, "DRAW"),
    Operation("Es9E", 1, 1, 0, 0, "SKPR"),
    Operation("EsA1", 1, 1, 0, 0, "SKUP"),
    Operation("Ft07", 1, 0, 1, 0, "MOVED"),
    Operation("Ft0A", 1, 0, 1, 0, "KEYD"),
    Operation("Fs15", 1, 1, 0, 0, "LOADD"),
    Operation("Fs18", 1, 1, 0, 0, "LOADS"),
    Operation("Fs1E", 1, 1, 0, 0, "ADDI"),
    Operation("Fs29", 1, 1, 0, 0, "LDSPR"),
    Operation("Fs33", 1, 1, 0, 0, "BCD"),
    Operation("Fs55", 1, 1, 0, 0, "STOR"),
    Operation("Fs65", 1, 1, 0, 0, "READ"),
    Operation("00Cn", 1, 0, 0, 1, "SCRD"),
    Operation("00FB", 0, 0, 0, 0, "SCRR"),
    Operation("00FC", 0, 0, 0, 0, "SCRL"),
    Operation("00FD", 0, 0, 0, 0, "EXIT"),
    Operation("00FE", 0, 0, 0, 0, "EXTD"),
    Operation("00FF", 0, 0, 0, 0, "EXTE"),
    Operation("Fs75", 1, 1, 0, 0, "SRPL"),
    Operation("Fs85", 1, 1, 0, 0, "LRPL"),
    Operation("5st2", 2, 1, 1, 0, "SAVESUB"),
    Operation("F002", 0, 0, 0, 0, "AUDIO"),
    Operation("Fn03", 1, 0, 0, 1, "PLANE"),
    Operation("Fs3A", 1, 1, 0, 0, "PITCH") >>

\* statement.operation before translate finds one: Python's None
NoOperation == Operation(None, 0, 0, 0, 0, None)

FCB == "FCB"

FDB == "FDB"

PSEUDO_OPERATIONS == <<FCB, FDB>>

\* ------------------------------------------------------------------------
\* statement.py: the three patterns of a line
\* ------------------------------------------------------------------------

\* t is at least u in the order of the tuples of lengths: a greedy pattern
\* takes the match whose repetitions, left to right, are the longest
LexGE(t, u) == \/ t = u
               \/ \E k \in 1..Len(t) : /\ \A j \in 1..(k - 1) : t[j] = u[j]
                                       /\ t[k] > u[k]

LexMax(S) == CHOOSE t \in S : \A u \in S : LexGE(t, u)

RECURSIVE DotRun(_, _)
\* the longest match of .* at p: "." is every character but the newline
DotRun(s, p) == IF p <= Len(s) /\ Char(s, p) # "\n" THEN 1 + DotRun(s, p + 1) ELSE 0

\* .*$ matches at p: "$" is the end of the string, or the place before a
\* newline that ends the string
DotStarEnd(s, p) == p + DotRun(s, p) >= Len(s)

\* BLANK_LINE_REGEX.search(line): ^\s*$
BLANK_LINE_REGEX(line) == Run(line, 1, SpaceChars) = Len(line)

\* COMMENT_LINE_REGEX.match(line): ^\s*#\s*(?P<comment>.*)$
\* the lengths <<\s*, \s*>> of every way to match, the comment group after them
CommentMatchesAfter(line, a) ==
    IF a < Len(line) /\ Char(line, a + 1) = "#"
    THEN {<<a, b>> : b \in {x \in 0..Run(line, a + 2, SpaceChars) :
                                DotStarEnd(line, a + 2 + x)}}
    ELSE {}

CommentMatches(line) == CommentMatchesAfter(line, Run(line, 1, SpaceChars))

\* the text .* matches at p
DotStarGroup(line, p) == SubSeq(line, p, p + DotRun(line, p) - 1)

\* the groups of the match with the lengths m
CommentGroups(line, m) ==
    [matched |-> TRUE, comment |-> DotStarGroup(line, m[1] + 1 + m[2] + 1)]

CommentMatch(line, S) ==
    IF S = {} THEN [matched |-> FALSE, comment |-> ""]
    ELSE CommentGroups(line, LexMax(S))

COMMENT_LINE_REGEX(line) == CommentMatch(line, CommentMatches(line))

\* ASM_LINE_REGEX.match(line):
\*   ^(?P<label>\w*)\s+(?P<mnemonic>\w*)\s+(?P<operands>[\w$,+-]*)\s*[#]*\s*(?P<comment>.*)$
\* the lengths <<label, \s+, mnemonic, \s+, operands, \s*, #*, \s*>> of every way to match
AsmMatches(line) ==
    UNION { UNION { UNION { UNION { UNION { UNION { UNION {
        { <<a, b, c, d, e, f, g, h>> :
            h \in {x \in 0..Run(line, a + b + c + d + e + f + g + 1, SpaceChars) :
                      DotStarEnd(line, a + b + c + d + e + f + g + x + 1)} }
        : g \in 0..Run(line, a + b + c + d + e + f + 1, {"#"}) }
        : f \in 0..Run(line, a + b + c + d + e + 1, SpaceChars) }
        : e \in 0..Run(line, a + b + c + d + 1, OperandChars) }
        : d \in 1..Run(line, a + b + c + 1, SpaceChars) }
        : c \in 0..Run(line, a + b + 1, WordChars) }
        : b \in 1..Run(line, a + 1, SpaceChars) }
        : a \in 0..Run(line, 1, WordChars) }

\* the groups of the match with the lengths m
AsmGroups(line, m) ==
    [matched  |-> TRUE,
     label    |-> SubSeq(line, 1, m[1]),
     mnemonic |-> SubSeq(line, m[1] + m[2] + 1, m[1] + m[2] + m[3]),
     operands |-> SubSeq(line, m[1] + m[2] + m[3] + m[4] + 1,
                         m[1] + m[2] + m[3] + m[4] + m[5]),
     comment  |-> DotStarGroup(line, m[1] + m[2] + m[3] + m[4] + m[5] + m[6]
                                     + m[7] + m[8] + 1)]

AsmMatch(line, S) ==
    IF S = {} THEN [matched |-> FALSE, label |-> "", mnemonic |-> "",
                    operands |-> "", comment |-> ""]
    ELSE AsmGroups(line, LexMax(S))

ASM_LINE_REGEX(line) == AsmMatch(line, AsmMatches(line))

\* REG_LINE_REGEX.match(string): [rR][0-9a-fA-F]$
REG_LINE_REGEX(string) ==
    /\ Len(string) >= 2
    /\ Char(string, 1) \in {"r", "R"}
    /\ Char(string, 2) \in HexChars
    /\ \/ Len(string) = 2
       \/ Len(string) = 3 /\ Char(string, 3) = "\n"

\* ------------------------------------------------------------------------
\* exceptions.py, and what a method call comes to
\* ------------------------------------------------------------------------

\* no exception: the call returned
NoError == [type |-> None, value |-> None]

TranslationError(value) == [type |-> "TranslationError", value |-> value]

ParseError(value) == [type |-> "ParseError", value |-> value]

\* raised by int() inside get_value and save_binary_file, and by bytearray()
ValueError(value) == [type |-> "ValueError", value |-> value]

\* raised by operands[operand_counter] inside translate
IndexError(value) == [type |-> "IndexError", value |-> value]

\* a method of Statement: the exception it raised (or NoError) and the
\* statement as the call left it
Outcome(raised, statement) == [raised |-> raised, statement |-> statement]

\* a static method: the exception it raised (or NoError) and what it returned
Returned(raised, value) == [raised |-> raised, value |-> value]

RECURSIVE DecimalDigits(_)
DecimalDigits(n) == IF n = 0 THEN ""
                    ELSE DecimalDigits(n \div 10) \o Char(Digits, (n % 10) + 1)

\* "{}".format(n) for an int n >= 0
FormatInt(n) == IF n = 0 THEN "0" ELSE DecimalDigits(n)

\* "{}".format(x) for a str or None
Format(x) == IF x = None THEN "None" ELSE x

\* bool(x) for a str or None
Truthy(x) == x # None /\ x # ""

\* x or None
OrNone(x) == IF Truthy(x) THEN x ELSE None

\* x or ""
OrEmpty(x) == IF Truthy(x) THEN x ELSE ""

\* ------------------------------------------------------------------------
\* statement.py: class Statement
\* ------------------------------------------------------------------------

\* Statement(): __init__
NewStatement ==
    [empty |-> TRUE, comment_only |-> FALSE, operation |-> NoOperation,
     label |-> None, operands |-> None, comment |-> None, size |-> 0,
     address |-> None, mnemonic |-> None, op_code |-> None,
     source |-> None, target |-> None, numeric |-> None]

is_register(string) == REG_LINE_REGEX(string)

\* hex(int(digits, 16))[2:].upper(), n being int(digits, 16)
HexOfInt(digits, n) ==
    IF n.ok THEN Returned(NoError, Upper(SliceFrom(Hex(n.value), 2)))
    ELSE Returned(ValueError("invalid literal for int() with base 16: '"
                             \o digits \o "'"), None)

get_value(string) ==
    IF StartsWith(string, "$")
    THEN HexOfInt(SliceFrom(string, 1), Int16(SliceFrom(string, 1)))
    ELSE Returned(NoError, string)

\* h[-1]
LastChar(h) == Char(h, Len(h))

\* a get_register that returns the digit as it is written: what C14 rules
\* out
GetRegisterAsWritten(string) ==
    IF ~is_register(string)
    THEN Returned(TranslationError("expected register in r0-rF, but got ["
                                   \o string \o "]"), None)
    ELSE IF Len(string) > 2
    THEN Returned(TranslationError("invalid register [" \o string \o "]"), None)
    ELSE Returned(NoError, Char(string, 2))

get_register(string) ==
    IF ~is_register(string)
    THEN Returned(TranslationError("expected register in r0-rF, but got ["
                                   \o string \o "]"), None)
    ELSE IF Len(string) > 2
    THEN Returned(TranslationError("invalid register [" \o string \o "]"), None)
    ELSE Returned(NoError, Upper(LastChar(Hex(Int16(SliceFrom(string, 1)).value))))

is_pseudo_op(self) == \E k \in 1..Len(PSEUDO_OPERATIONS) : PSEUDO_OPERATIONS[k] = self.mnemonic

is_empty(self) == self.empty

get_label(self) == OrEmpty(self.label)

set_address(self, address) == [self EXCEPT !.address = address]

\* parse_line from "data = ASM_LINE_REGEX.match(line)" on
ParseAsmLine(self, line, data) ==
    IF data.matched
    THEN Outcome(NoError, [self EXCEPT !.label = OrNone(data.label),
                                       !.mnemonic = OrNone(data.mnemonic),
                                       !.operands = OrNone(data.operands),
                                       !.comment = OrNone(Strip(data.comment)),
                                       !.empty = FALSE])
    ELSE Outcome(ParseError("could not parse line [" \o line \o "]"), self)

\* parse_line from "data = COMMENT_LINE_REGEX.match(line)" on
ParseCommentLine(self, line, data) ==
    IF data.matched
    THEN Outcome(NoError, [self EXCEPT !.empty = FALSE,
                                       !.comment_only = TRUE,
                                       !.comment = Strip(data.comment)])
    ELSE ParseAsmLine(self, line, ASM_LINE_REGEX(line))

parse_line(self, line) ==
    IF BLANK_LINE_REGEX(line) THEN Outcome(NoError, self)
    ELSE ParseCommentLine(self, line, COMMENT_LINE_REGEX(line))

\* the first operation of OPERATIONS with the mnemonic, else what
\* self.operation was (the loop of translate with its break)
LookupOperation(self) ==
    LET found == {k \in 1..Len(OPERATIONS) : OPERATIONS[k].mnemonic = self.mnemonic}
    IN  IF found = {} THEN self.operation
        ELSE OPERATIONS[CHOOSE k \in found : \A j \in found : k <= j]

\* translate: "self.numeric = self.get_value(...)", value being what
\* get_value came to
SetNumeric(self, value) ==
    IF value.raised # NoError THEN Outcome(value.raised, self)
    ELSE Outcome(NoError, [self EXCEPT !.numeric = value.value])

\* translate from "if self.operation.numeric != 0" on
TranslateNumeric(self, ops, operand_counter) ==
    IF self.operation.numeric # 0
    THEN IF operand_counter < Len(ops)
         THEN SetNumeric(self, get_value(ops[operand_counter + 1]))
         ELSE Outcome(IndexError("list index out of range"), self)
    ELSE Outcome(NoError, self)

\* translate: "self.target = self.get_register(...)" and what follows
SetTarget(self, ops, operand_counter, value) ==
    IF value.raised # NoError THEN Outcome(value.raised, self)
    ELSE TranslateNumeric([self EXCEPT !.target = value.value], ops, operand_counter + 1)

\* translate from "if self.operation.target != 0" on
TranslateTarget(self, ops, operand_counter) ==
    IF self.operation.target # 0
    THEN IF operand_counter < Len(ops)
         THEN SetTarget(self, ops, operand_counter, get_register(ops[operand_counter + 1]))
         ELSE Outcome(IndexError("list index out of range"), self)
    ELSE TranslateNumeric(self, ops, operand_counter)

\* translate: "self.source = self.get_register(...)" and what follows
SetSource(self, ops, operand_counter, value) ==
    IF value.raised # NoError THEN Outcome(value.raised, self)
    ELSE TranslateTarget([self EXCEPT !.source = value.value], ops, operand_counter + 1)

\* ops from its last token to its first
Reversed(ops) == [k \in 1..Len(ops) |-> ops[Len(ops) + 1 - k]]

\* a translate that hands out the operand tokens from the last to the
\* first: what C10 rules out
TranslateOperandsReversed(self, ops) ==
    IF self.operation.source # 0
    THEN IF 0 < Len(ops)
         THEN SetSource(self, Reversed(ops), 0, get_register(ops[Len(ops)]))
         ELSE Outcome(IndexError("list index out of range"), self)
    ELSE TranslateTarget(self, Reversed(ops), 0)

\* translate from "operand_counter = 0" on: ops is the list of operand tokens
TranslateOperands(self, ops) ==
    IF self.operation.source # 0
    THEN IF 0 < Len(ops)
         THEN SetSource(self, ops, 0, get_register(ops[1]))
         ELSE Outcome(IndexError("list index out of range"), self)
    ELSE TranslateTarget(self, ops, 0)

\* a translate that does not count the operand tokens: what C13 rules out
TranslateOperationUncounted(self, ops) ==
    IF self.operation = NoOperation
    THEN Outcome(TranslationError("invalid mnemonic [" \o Format(self.mnemonic)
                                  \o "]'"), self)
    ELSE TranslateOperands(self, ops)

\* translate from "if not self.operation" on
TranslateOperation(self, ops) ==
    IF self.operation = NoOperation
    THEN Outcome(TranslationError("invalid mnemonic [" \o Format(self.mnemonic)
                                  \o "]'"), self)
    ELSE IF Len(ops) # self.operation.operands
    THEN Outcome(TranslationError("expected " \o FormatInt(self.operation.operands)
                                  \o " operand(s), but got "
                                  \o FormatInt(Len(ops))), self)
    ELSE TranslateOperands(self, ops)

\* a translate that looks a pseudo operation up in OPERATIONS like any
\* mnemonic: what C19 rules out
TranslateAnyMnemonic(self) ==
    IF self.comment_only THEN Outcome(NoError, self)
    ELSE TranslateOperation([self EXCEPT !.operation = LookupOperation(self)],
                            IF Truthy(self.operands) THEN Split(self.operands, ",")
                            ELSE <<>>)

translate(self) ==
    IF self.comment_only THEN Outcome(NoError, self)
    ELSE IF is_pseudo_op(self)
    THEN IF ~Truthy(self.operands)
         THEN Outcome(TranslationError("pseudo operation [" \o Format(self.mnemonic)
                                       \o "] requires 1 operand"), self)
         ELSE Outcome(NoError, self)
    ELSE TranslateOperation([self EXCEPT !.operation = LookupOperation(self)],
                            IF Truthy(self.operands) THEN Split(self.operands, ",")
                            ELSE <<>>)

\* a replace_label that replaces the operand field too when it is the
\* label: what C17 rules out
ReplaceLabelAndOperands(self, label, value) ==
    [self EXCEPT !.source   = IF self.source = label THEN value ELSE self.source,
                 !.target   = IF self.target = label THEN value ELSE self.target,
                 !.numeric  = IF self.numeric = label THEN value ELSE self.numeric,
                 !.operands = IF self.operands = label THEN value ELSE self.operands]

replace_label(self, label, value) ==
    [self EXCEPT !.source  = IF self.source = label THEN value ELSE self.source,
                 !.target  = IF self.target = label THEN value ELSE self.target,
                 !.numeric = IF self.numeric = label THEN value ELSE self.numeric]

\* a fix_values that cuts a numeric value down to the width of its slot
\* where the code raises: what C12 rules out
FixNumericTruncating(self) ==
    IF self.operation.numeric # 0
    THEN Outcome(NoError,
                 [self EXCEPT !.op_code =
                     Replace(self.op_code,
                             Repeat(NUMERIC_REG, self.operation.numeric),
                             ZFill(SliceFrom(self.numeric,
                                             Max(0, Len(self.numeric)
                                                    - self.operation.numeric)),
                                   self.operation.numeric))])
    ELSE Outcome(NoError, self)

\* fix_values from "if self.operation.numeric != 0" on
FixNumeric(self) ==
    IF self.operation.numeric # 0
    THEN IF Len(self.numeric) > self.operation.numeric
         THEN Outcome(TranslationError("expected numeric of length "
                                       \o FormatInt(self.operation.numeric)
                                       \o ", but was length "
                                       \o FormatInt(Len(self.numeric)) \o " ["
                                       \o self.numeric \o "]"), self)
         ELSE Outcome(NoError,
                      [self EXCEPT !.op_code =
                          Replace(self.op_code,
                                  Repeat(NUMERIC_REG, self.operation.numeric),
                                  ZFill(self.numeric, self.operation.numeric))])
    ELSE Outcome(NoError, self)

\* fix_values from "if self.operation.target == 1" on
FixTarget(self) ==
    IF self.operation.target = 1
    THEN IF Len(self.target) > 1
         THEN Outcome(TranslationError("expected target in 0-F, but got "
                                       \o self.target), self)
         ELSE FixNumeric([self EXCEPT !.op_code =
                             Replace(self.op_code, TARGET_REG, self.target)])
    ELSE FixNumeric(self)

\* fix_values from "if self.operation.source == 1" on
FixSource(self) ==
    IF self.operation.source = 1
    THEN IF Len(self.source) > 1
         THEN Outcome(TranslationError("expected source in 0-F, but got "
                                       \o self.source), self)
         ELSE FixTarget([self EXCEPT !.op_code =
                            Replace(self.op_code, SOURCE_REG, self.source)])
    ELSE FixTarget(self)

\* fix_values of a pseudo operation: "self.op_code = self.get_value(self.operands)"
FixPseudoOp(self, value) ==
    IF value.raised # NoError THEN Outcome(value.raised, self)
    ELSE Outcome(NoError, [self EXCEPT !.op_code = value.value])

fix_values(self) ==
    IF self.comment_only THEN Outcome(NoError, self)
    ELSE IF is_pseudo_op(self)
    THEN IF ~StartsWith(self.operands, "$")
         THEN Outcome(TranslationError("expected value starting with $, but got "
                                       \o self.operands), self)
         ELSE FixPseudoOp(self, get_value(self.operands))
    ELSE FixSource([self EXCEPT !.op_code = self.operation.op])

\* ------------------------------------------------------------------------
\* Bounds and the input
\* ------------------------------------------------------------------------

\* the longest file read, in lines
MaxLines == 2

\* The lines a file is made of.  Each is a line as parse_file hands it to
\* parse_line, its newline included.
SourceLines == {
    "\n",
    "# comment\n",
    "bad\n",
    "lab JUMP lab\n",
    " JUMP lab\n",
    "lab CLR\n",
    "200 FCB $AB\n",
    " FDB $AB\n",
    " FDB $FFEE\n",
    " SKRNE r1,r2\n",
    " RAND r3,$4F\n",
    " DRAW r1,r2,$5\n",
    "lab BLAH\n",
    " JUMP $XYZ\n",
    " FCB $1,$2\n",
    " SHR r1\n",
    " JUMP foo\n",
    " JUMP $1234\n",
    " LOAD r1,-1\n",
    "1 SKPR r1\n" }

\* the files of at most MaxLines lines
Files == UNION {[1..n -> SourceLines] : n \in 0..MaxLines}

\* the lines test_integration.py parses, one to a program
IntegrationLines == {
    "    AUDIO    ; audio statement",
    "    PITCH r1    ; pitch statement",
    "    PLANE $2    ; plane statement",
    "    SAVESUB r1,r6    ; save subset statement",
    "    LOADSUB r1,r6    ; load subset statement",
    "    SCRU 5    ; scroll up statement" }

\* statements that name their own label, or hold a literal too wide for
\* a pseudo operation or a bare word that is no label
EdgeLines == {
    " FCB $100\n",
    " FDB $10000\n",
    "lab FCB lab\n",
    "A JUMP $A\n",
    " JUMP abc\n",
    "lab LOAD r1,lab\n" }

\* the programs of one statement
OneStatementFiles ==
    {<<line>> : line \in IntegrationLines \cup SourceLines \cup EdgeLines}

\* the longest line made of LineChars, in characters, its newline apart
MaxChars == 4

\* the longest register token made of RegisterChars, in characters
MaxToken == 3

\* the strings of at most n characters of alphabet
RECURSIVE Strings(_, _)
Strings(alphabet, n) ==
    IF n = 0 THEN {""}
    ELSE {""} \cup {c \o s : c \in alphabet, s \in Strings(alphabet, n - 1)}

\* a blank, a comment marker, a word character, an operand character that
\* is not a word character, a character that is none of these
LineChars == {" ", "#", "a", "$", ";"}

\* the lines test_statement.py parses
StatementTestLines == {
    "    ",
    "# This is a comment",
    "label mnemonic operands # comment",
    "bad",
    "    FDB $FFEE",
    "    FDB",
    "label SKRNE r1,r2 # comment",
    "label BLAH r1,r2 # comment",
    "label JUMP  # comment" }

\* the lines a test hands to parse_line: those of the tests and of the
\* files, a last line of a file that has no newline, and every short line
\* of LineChars with and without its newline
TestLines ==
    StatementTestLines \cup IntegrationLines \cup SourceLines \cup EdgeLines
    \cup {" CLR", "  RTS", " CLR r1\n", " FCB\n", " DRAW r1,r1,1\n"}
    \cup {body \o end : body \in Strings(LineChars, MaxChars), end \in {"", "\n"}}

RegisterChars == {"r", "R", "1", "a", "F", "G"}

\* the tokens a test hands to get_register
TestRegisters ==
    {"r11", "R11", "rG", "r", "register", "r0", "R9", "rb", "RE"}
    \cup Strings(RegisterChars, MaxToken)

\* the labels and values a test hands to replace_label
TestLabels == {"lab", "1", "2", "200"}

TestValues == {"200", "A", "1000"}

\* the entries of the symbol table of a test, at most
MaxLabels == 2

\* ------------------------------------------------------------------------
\* program.py: class Program, and assembler.py: main
\* ------------------------------------------------------------------------

VARIABLES
    args,           \* the command line: [output |-> whether --output FILE is given]
    lines,          \* the lines of the file args.filename
    pc,             \* the call of main that is running
    i,              \* the next line or statement of the running loop, from 1
    statements,     \* program.statements
    symbol_table,   \* program.symbol_table, in insertion order
    address,        \* program.address
    machine_codes,  \* the list save_binary_file builds
    outfile,        \* the output file: whether opened, and the bytes written
    raised,         \* the exception that ended the run, NoError while there is none
    previous,       \* what an earlier run on the same command line and file came to
    invoked         \* the method a test called on a Statement of its own, last

vars == <<args, lines, pc, i, statements, symbol_table, address,
          machine_codes, outfile, raised, previous, invoked>>

\* the output file before save_binary_file opens it
NotOpened == [opened |-> FALSE, bytes |-> <<>>]

\* no earlier run
NoRun == [ran |-> FALSE]

\* a call of a method of Statement: its name, its arguments, self before the
\* call, what it returned and the exception it raised
Invoked(method, arguments, self, returned, exception) ==
    [method |-> method, arguments |-> arguments, self |-> self,
     returned |-> returned, raised |-> exception]

\* main calls no method of a Statement itself
NotInvoked == Invoked(None, <<>>, NewStatement, None, NoError)

\* a symbol table that never finds a label in itself, so that a second
\* definition overwrites the first: what C4 rules out
NeverInTable(table, label) == FALSE

\* label in self.symbol_table
InTable(table, label) == \E k \in 1..Len(table) : table[k].label = label

\* self.symbol_table[label]
Lookup(table, label) == table[CHOOSE k \in 1..Len(table) : table[k].label = label].value

\* self.symbol_table[label] = value: a dict keeps the order in which its keys
\* were first inserted
Store(table, label, value) ==
    IF InTable(table, label)
    THEN [k \in 1..Len(table) |->
            IF table[k].label = label THEN [label |-> label, value |-> value]
            ELSE table[k]]
    ELSE Append(table, [label |-> label, value |-> value])

\* statement.operation == FCB in set_addresses: operation is None or an
\* Operation tuple, FCB a str, and Python finds the two unequal whatever
\* the mnemonic is
OperationIsFCB(statement) == FALSE

\* Program(): __init__, then main's first call
Init ==
    /\ args \in [output : BOOLEAN]
    /\ lines \in Files
    /\ pc = "parse_file"
    /\ i = 1
    /\ statements = <<>>
    /\ symbol_table = <<>>
    /\ address = 512
    /\ machine_codes = <<>>
    /\ outfile = NotOpened
    /\ raised = NoError
    /\ previous = NoRun
    /\ invoked = NotInvoked

Running(call) == pc = call /\ raised = NoError

\* parse_file: one turn of "for line in infile".  A ParseError is caught
\* nowhere and ends the run.
ParseLine ==
    /\ Running("parse_file")
    /\ i <= Len(lines)
    /\ \E r \in {parse_line(NewStatement, lines[i])} :
           /\ raised' = r.raised
           /\ statements' = IF r.raised = NoError /\ ~is_empty(r.statement)
                            THEN Append(statements, r.statement)
                            ELSE statements
           /\ i' = IF r.raised = NoError THEN i + 1 ELSE i
    /\ UNCHANGED <<args, lines, invoked, pc, symbol_table, address, machine_codes,
                   outfile, previous>>

\* parse_file returns; main calls translate_statements
CallTranslateStatements ==
    /\ Running("parse_file")
    /\ i > Len(lines)
    /\ pc' = "translate_statements"
    /\ i' = 1
    /\ UNCHANGED <<args, lines, invoked, statements, symbol_table, address, machine_codes,
                   outfile, raised, previous>>

\* translate_statements: one turn of the loop.  throw_error prints the error
\* and leaves through sys.exit(1); another exception leaves uncaught.
TranslateStatement ==
    /\ Running("translate_statements")
    /\ i <= Len(statements)
    /\ \E r \in {translate(statements[i])}, label \in {get_label(statements[i])} :
           /\ statements' = [statements EXCEPT ![i] = r.statement]
           /\ IF r.raised # NoError
              THEN /\ raised' = r.raised
                   /\ UNCHANGED <<symbol_table, i>>
              ELSE IF label # "" /\ InTable(symbol_table, label)
              THEN /\ raised' = TranslationError("label [" \o label \o "] redefined")
                   /\ UNCHANGED <<symbol_table, i>>
              ELSE /\ symbol_table' = IF label # ""
                                      THEN Store(symbol_table, label, PyInt(i - 1))
                                      ELSE symbol_table
                   /\ i' = i + 1
                   /\ UNCHANGED raised
    /\ UNCHANGED <<args, lines, invoked, pc, address, machine_codes, outfile, previous>>

\* a main that calls set_addresses before translate_statements has come to
\* the end of the list: what C7 rules out
CallSetAddressesEarly ==
    /\ pc = "translate_statements"
    /\ raised = NoError
    /\ pc' = "set_addresses"
    /\ i' = 1
    /\ UNCHANGED <<args, lines, invoked, statements, symbol_table, address, machine_codes,
                   outfile, raised, previous>>

\* translate_statements returns; main calls set_addresses
CallSetAddresses ==
    /\ Running("translate_statements")
    /\ i > Len(statements)
    /\ pc' = "set_addresses"
    /\ i' = 1
    /\ UNCHANGED <<args, lines, invoked, statements, symbol_table, address, machine_codes,
                   outfile, raised, previous>>

\* what set_addresses adds to self.address after a statement
AddressStep(statement) ==
    IF ~statement.comment_only /\ ~is_empty(statement)
    THEN IF OperationIsFCB(statement) THEN 1 ELSE 2
    ELSE 0

\* a set_addresses that binds the label after the counter has advanced:
\* what C8 rules out
SetAddressAfterAdvance ==
    /\ pc = "set_addresses"
    /\ raised = NoError
    /\ i <= Len(statements)
    /\ \E statement \in {statements[i]}, label \in {get_label(statements[i])} :
           /\ symbol_table' = IF label # ""
                              THEN Store(symbol_table, label,
                                         PyStr(Hex(address + AddressStep(statement))))
                              ELSE symbol_table
           /\ statements' = [statements EXCEPT ![i] = set_address(statement, Hex(address))]
           /\ address' = address + AddressStep(statement)
    /\ i' = i + 1
    /\ UNCHANGED <<args, lines, invoked, pc, machine_codes, outfile, raised, previous>>

\* a set_addresses that passes over a comment and leaves it without an
\* address: what C24 says of the pass
SetAddressSkippingComments ==
    /\ pc = "set_addresses"
    /\ raised = NoError
    /\ i <= Len(statements)
    /\ \E statement \in {statements[i]}, label \in {get_label(statements[i])} :
           /\ symbol_table' = IF label # ""
                              THEN Store(symbol_table, label, PyStr(Hex(address)))
                              ELSE symbol_table
           /\ statements' = IF statement.comment_only THEN statements
                             ELSE [statements EXCEPT
                                      ![i] = set_address(statement, Hex(address))]
           /\ address' = address + AddressStep(statement)
    /\ i' = i + 1
    /\ UNCHANGED <<args, lines, invoked, pc, machine_codes, outfile, raised, previous>>

\* set_addresses: one turn of the loop
SetAddress ==
    /\ Running("set_addresses")
    /\ i <= Len(statements)
    /\ \E statement \in {statements[i]}, label \in {get_label(statements[i])} :
           /\ symbol_table' = IF label # ""
                              THEN Store(symbol_table, label, PyStr(Hex(address)))
                              ELSE symbol_table
           /\ statements' = [statements EXCEPT ![i] = set_address(statement, Hex(address))]
           /\ address' = address + AddressStep(statement)
    /\ i' = i + 1
    /\ UNCHANGED <<args, lines, invoked, pc, machine_codes, outfile, raised, previous>>

\* set_addresses returns; main calls fix_opcodes
CallFixOpcodes ==
    /\ Running("set_addresses")
    /\ i > Len(statements)
    /\ pc' = "fix_opcodes"
    /\ i' = 1
    /\ UNCHANGED <<args, lines, invoked, statements, symbol_table, address, machine_codes,
                   outfile, raised, previous>>

\* the inner loop of fix_opcodes: replace_label for the items of the symbol
\* table from the k-th on, in the order of the dict
RECURSIVE ReplaceLabels(_, _, _)
ReplaceLabels(statement, table, k) ==
    IF k > Len(table) THEN statement
    ELSE ReplaceLabels(replace_label(statement, table[k].label,
                                     SliceFrom(table[k].value.str, 2)),
                       table, k + 1)

\* fix_opcodes: one turn of the outer loop
FixOpcode ==
    /\ Running("fix_opcodes")
    /\ i <= Len(statements)
    /\ \E r \in {fix_values(ReplaceLabels(statements[i], symbol_table, 1))} :
           /\ statements' = [statements EXCEPT ![i] = r.statement]
           /\ raised' = r.raised
           /\ i' = IF r.raised = NoError THEN i + 1 ELSE i
    /\ UNCHANGED <<args, lines, invoked, pc, symbol_table, address, machine_codes,
                   outfile, previous>>

\* fix_opcodes returns; with --output main calls save_binary_file
CallSaveBinaryFile ==
    /\ Running("fix_opcodes")
    /\ i > Len(statements)
    /\ args.output
    /\ pc' = "save_binary_file"
    /\ i' = 1
    /\ UNCHANGED <<args, lines, invoked, statements, symbol_table, address, machine_codes,
                   outfile, raised, previous>>

\* fix_opcodes returns; without --output main is over
ReturnWithoutOutput ==
    /\ Running("fix_opcodes")
    /\ i > Len(statements)
    /\ ~args.output
    /\ pc' = "done"
    /\ UNCHANGED <<args, lines, invoked, i, statements, symbol_table, address, machine_codes,
                   outfile, raised, previous>>

\* an emitter that makes a byte of every character of the op code: what
\* C15 rules out
RECURSIVE MachineCodesByDigit(_, _)
MachineCodesByDigit(op_code, index) ==
    IF index >= Len(op_code) THEN Returned(NoError, <<>>)
    ELSE IF ~Int16(Slice(op_code, index, index + 1)).ok
    THEN Returned(ValueError("invalid literal for int() with base 16: '"
                             \o Slice(op_code, index, index + 1) \o "'"), <<>>)
    ELSE Returned(MachineCodesByDigit(op_code, index + 1).raised,
                  <<Int16(Slice(op_code, index, index + 1)).value>>
                  \o MachineCodesByDigit(op_code, index + 1).value)

\* the inner loop of save_binary_file over one op code, from index on:
\* the bytes appended, and the ValueError of int() if it stopped the loop
RECURSIVE MachineCodes(_, _)
MachineCodes(op_code, index) ==
    IF index >= Len(op_code) THEN Returned(NoError, <<>>)
    ELSE IF ~Int16(Slice(op_code, index, index + 2)).ok
    THEN Returned(ValueError("invalid literal for int() with base 16: '"
                             \o Slice(op_code, index, index + 2) \o "'"), <<>>)
    ELSE Returned(MachineCodes(op_code, index + 2).raised,
                  <<Int16(Slice(op_code, index, index + 2)).value>>
                  \o MachineCodes(op_code, index + 2).value)

\* a save_binary_file that writes the bytes of each statement as it comes
\* to it: what C5 rules out
SaveStatementWriting ==
    /\ pc = "save_binary_file"
    /\ raised = NoError
    /\ i <= Len(statements)
    /\ \E r \in {IF ~is_empty(statements[i]) /\ ~statements[i].comment_only
                 THEN MachineCodes(statements[i].op_code, 0)
                 ELSE Returned(NoError, <<>>)} :
           /\ machine_codes' = machine_codes \o r.value
           /\ outfile' = [opened |-> TRUE, bytes |-> outfile.bytes \o r.value]
           /\ raised' = r.raised
           /\ i' = IF r.raised = NoError THEN i + 1 ELSE i
    /\ UNCHANGED <<args, lines, invoked, pc, statements, symbol_table, address, previous>>

\* save_binary_file: one turn of the loop over the statements
SaveStatement ==
    /\ Running("save_binary_file")
    /\ i <= Len(statements)
    /\ \E r \in {IF ~is_empty(statements[i]) /\ ~statements[i].comment_only
                 THEN MachineCodes(statements[i].op_code, 0)
                 ELSE Returned(NoError, <<>>)} :
           /\ machine_codes' = machine_codes \o r.value
           /\ raised' = r.raised
           /\ i' = IF r.raised = NoError THEN i + 1 ELSE i
    /\ UNCHANGED <<args, lines, invoked, pc, statements, symbol_table, address,
                   outfile, previous>>

\* save_binary_file: the file is opened, which empties it, and
\* bytearray(machine_codes), which takes numbers in 0..255 only, is written
WriteFile ==
    /\ Running("save_binary_file")
    /\ i > Len(statements)
    /\ IF \A k \in 1..Len(machine_codes) : machine_codes[k] \in 0..255
       THEN /\ outfile' = [opened |-> TRUE, bytes |-> machine_codes]
            /\ pc' = "done"
            /\ UNCHANGED raised
       ELSE /\ outfile' = [opened |-> TRUE, bytes |-> <<>>]
            /\ raised' = ValueError("byte must be in range(0, 256)")
            /\ UNCHANGED pc
    /\ UNCHANGED <<args, lines, invoked, i, statements, symbol_table, address,
                   machine_codes, previous>>

Next ==
    \/ ParseLine
    \/ CallTranslateStatements
    \/ TranslateStatement
    \/ CallSetAddresses
    \/ SetAddress
    \/ CallFixOpcodes
    \/ FixOpcode
    \/ CallSaveBinaryFile
    \/ ReturnWithoutOutput
    \/ SaveStatement
    \/ WriteFile

Spec == Init /\ [][Next]_vars

\* ------------------------------------------------------------------------
\* Two runs on the same input
\* ------------------------------------------------------------------------

\* the run is over: main returned, or an exception or sys.exit ended it
Terminal == pc = "done" \/ raised # NoError

\* what a run came to: how and where it ended, the symbol table, the file
Result == [raised |-> raised, pc |-> pc, i |-> i,
           symbol_table |-> symbol_table, outfile |-> outfile]

\* a second run on the Program of the first, its symbol table and address
\* counter as the first left them: what C6 rules out
RerunSameProgram ==
    /\ pc = "done" \/ raised # NoError
    /\ ~previous.ran
    /\ previous' = [ran |-> TRUE,
                    result |-> [raised |-> raised, pc |-> pc, i |-> i,
                                symbol_table |-> symbol_table, outfile |-> outfile]]
    /\ pc' = "parse_file"
    /\ i' = 1
    /\ statements' = <<>>
    /\ machine_codes' = <<>>
    /\ outfile' = NotOpened
    /\ raised' = NoError
    /\ UNCHANGED <<args, lines, invoked, symbol_table, address>>

\* main is run again on the same command line and file: a fresh Program()
\* and no output file yet; what the first run came to is kept in previous
Rerun ==
    /\ Terminal
    /\ ~previous.ran
    /\ previous' = [ran |-> TRUE, result |-> Result]
    /\ pc' = "parse_file"
    /\ i' = 1
    /\ statements' = <<>>
    /\ symbol_table' = <<>>
    /\ address' = 512
    /\ machine_codes' = <<>>
    /\ outfile' = NotOpened
    /\ raised' = NoError
    /\ UNCHANGED <<args, lines, invoked>>

NextTwice == Next \/ Rerun

SpecTwice == Init /\ [][NextTwice]_vars

\* ------------------------------------------------------------------------
\* test_integration.py: programs of one statement
\* ------------------------------------------------------------------------

\* Program(), the one statement parsed and appended; main runs the passes
InitIntegration ==
    /\ args \in [output : BOOLEAN]
    /\ lines \in OneStatementFiles
    /\ pc = "parse_file"
    /\ i = 1
    /\ statements = <<>>
    /\ symbol_table = <<>>
    /\ address = 512
    /\ machine_codes = <<>>
    /\ outfile = NotOpened
    /\ raised = NoError
    /\ previous = NoRun
    /\ invoked = NotInvoked

SpecIntegration == InitIntegration /\ [][Next]_vars

\* ------------------------------------------------------------------------
\* test_statement.py: the methods of one Statement, called by a test
\* ------------------------------------------------------------------------

\* statement = Statement()
InitStatement ==
    /\ args = [output |-> FALSE]
    /\ lines = <<>>
    /\ pc = "test"
    /\ i = 1
    /\ statements = <<NewStatement>>
    /\ symbol_table = <<>>
    /\ address = 512
    /\ machine_codes = <<>>
    /\ outfile = NotOpened
    /\ raised = NoError
    /\ previous = NoRun
    /\ invoked = NotInvoked

\* the statement of the test
TestStatement == statements[1]

\* statement.parse_line(line)
InvokeParseLine ==
    /\ pc = "test"
    /\ invoked = NotInvoked
    /\ \E line \in TestLines : \E r \in {parse_line(TestStatement, line)} :
           /\ statements' = <<r.statement>>
           /\ invoked' = Invoked("parse_line", <<line>>, TestStatement, None, r.raised)
    /\ UNCHANGED <<args, lines, pc, i, symbol_table, address, machine_codes,
                   outfile, raised, previous>>

\* statement.translate(), on a new Statement or after parse_line
InvokeTranslate ==
    /\ pc = "test"
    /\ \/ invoked = NotInvoked
       \/ invoked.method = "parse_line" /\ invoked.raised = NoError
    /\ \E r \in {translate(TestStatement)} :
           /\ statements' = <<r.statement>>
           /\ invoked' = Invoked("translate", <<>>, TestStatement, None, r.raised)
    /\ UNCHANGED <<args, lines, pc, i, symbol_table, address, machine_codes,
                   outfile, raised, previous>>

\* statement.replace_label(label, value), after translate or another
\* replace_label
InvokeReplaceLabel ==
    /\ pc = "test"
    /\ invoked.method \in {"translate", "replace_label"}
    /\ invoked.raised = NoError
    /\ \E label \in TestLabels, value \in TestValues :
           /\ statements' = <<replace_label(TestStatement, label, value)>>
           /\ invoked' = Invoked("replace_label", <<label, value>>, TestStatement,
                                 None, NoError)
    /\ UNCHANGED <<args, lines, pc, i, symbol_table, address, machine_codes,
                   outfile, raised, previous>>

\* an entry of a symbol table after set_addresses: the label and the text
\* of hex(address), of which value gives the digits
Entry(label, value) == [label |-> label, value |-> PyStr("0x" \o value)]

\* the labels of the entries of a table
LabelsOf(table) == {table[k].label : k \in 1..Len(table)}

\* the symbol tables of at most n entries, in the order of the dict, no
\* label twice
RECURSIVE TestTables(_)
TestTables(n) ==
    IF n = 0 THEN {<<>>}
    ELSE TestTables(n - 1)
         \cup UNION {{Append(table, Entry(label, value)) :
                         label \in TestLabels \ LabelsOf(table),
                         value \in TestValues} :
                     table \in {s \in TestTables(n - 1) : Len(s) = n - 1}}

\* a test puts the translated statement in a Program, sets its symbol
\* table and calls program.fix_opcodes()
InvokeFixOpcodes ==
    /\ pc = "test"
    /\ invoked.method = "translate"
    /\ invoked.raised = NoError
    /\ \E table \in TestTables(MaxLabels) :
       \E r \in {fix_values(ReplaceLabels(TestStatement, table, 1))} :
           /\ statements' = <<r.statement>>
           /\ symbol_table' = table
           /\ invoked' = Invoked("fix_opcodes", <<>>, TestStatement, None, r.raised)
    /\ UNCHANGED <<args, lines, pc, i, address, machine_codes,
                   outfile, raised, previous>>

\* Statement.get_register(string)
InvokeGetRegister ==
    /\ pc = "test"
    /\ invoked = NotInvoked
    /\ \E string \in TestRegisters : \E r \in {get_register(string)} :
           invoked' = Invoked("get_register", <<string>>, TestStatement,
                              r.value, r.raised)
    /\ UNCHANGED <<args, lines, pc, i, statements, symbol_table, address,
                   machine_codes, outfile, raised, previous>>

NextStatement ==
    \/ InvokeParseLine
    \/ InvokeTranslate
    \/ InvokeReplaceLabel
    \/ InvokeFixOpcodes
    \/ InvokeGetRegister

SpecStatement == InitStatement /\ [][NextStatement]_vars

\* ------------------------------------------------------------------------
\* Properties
\* ------------------------------------------------------------------------

\* the statements that are instructions or pseudo operations
IsOperation(statement) == ~statement.comment_only /\ ~is_empty(statement)

\* a real instruction that translate has found in OPERATIONS
IsInstruction(statement) == IsOperation(statement) /\ statement.operation # NoOperation

\* pass 2, 3, 4 has returned
TranslateDone == pc \in {"set_addresses", "fix_opcodes", "save_binary_file", "done"}

AddressesDone == pc \in {"fix_opcodes", "save_binary_file", "done"}

FixDone == \/ pc \in {"save_binary_file", "done"}
           \/ pc = "fix_opcodes" /\ raised = NoError /\ i > Len(statements)

\* the sum of width(statements[k]) over the first n statements
RECURSIVE SumOver(_, _, _)
SumOver(width(_), sts, n) ==
    IF n = 0 THEN 0 ELSE SumOver(width, sts, n - 1) + width(sts[n])

\* the width the specification gives a statement: nothing for a comment,
\* one byte for FCB, two for FDB and for every instruction
DeclaredWidth(statement) ==
    IF ~IsOperation(statement) THEN 0
    ELSE IF statement.mnemonic = FCB THEN 1 ELSE 2

\* C1 (as claimed): when all four passes succeed and the image is written, it
\* has one byte for every FCB statement and two bytes for every other
\* instruction or pseudo operation, whatever the operand of a pseudo
\* operation is.
C1_OutputLength ==
    (pc = "done" /\ outfile.opened)
        => Len(outfile.bytes) = SumOver(DeclaredWidth, statements, Len(statements))

\* the operand token that translate puts in the numeric slot
NumericToken(statement) ==
    Split(OrEmpty(statement.operands), ",")
        [statement.operation.source + statement.operation.target + 1]

\* the statements that carry the label
Definitions(label) == {d \in 1..Len(statements) : statements[d].label = label}

\* C2 (as claimed): once fix_opcodes is through, the numeric slot of every
\* instruction whose numeric operand names a label defined on exactly one
\* statement holds the hexadecimal address stamped on that statement, be the
\* reference forward, backward or to the statement itself.
C2_LabelResolved ==
    FixDone =>
        \A k \in 1..Len(statements) : \A d \in 1..Len(statements) :
            ( /\ IsInstruction(statements[k])
              /\ statements[k].operation.numeric # 0
              /\ NumericToken(statements[k]) = statements[d].label
              /\ Definitions(statements[d].label) = {d} )
            => statements[k].numeric = SliceFrom(statements[d].address, 2)

\* C3 (as claimed): set_addresses stamps the first statement with 0x200 and
\* every statement with 0x200 plus the widths of the statements before it,
\* the width of an FCB being 1 and that of every other instruction or pseudo
\* operation 2; so the statement after an FCB at A is stamped A + 1.
C3_AddressAdvance ==
    \A k \in 1..Len(statements) :
        (IsOperation(statements[k]) /\ statements[k].address # None)
            => statements[k].address = Hex(512 + SumOver(DeclaredWidth, statements, k - 1))

\* the statement at which a label is defined for the second time, 0 if none is
SecondDefinition ==
    IF \E k \in 1..Len(statements) : \E j \in 1..(k - 1) :
            /\ statements[k].label # None
            /\ statements[j].label = statements[k].label
    THEN CHOOSE k \in 1..Len(statements) :
            /\ \E j \in 1..(k - 1) : /\ statements[k].label # None
                                     /\ statements[j].label = statements[k].label
            /\ \A m \in 1..(k - 1) : \A j \in 1..(m - 1) :
                   statements[m].label = None \/ statements[j].label # statements[m].label
    ELSE 0

\* the statement that defines the label of statement k first
FirstDefinition(k) ==
    CHOOSE j \in 1..k : /\ statements[j].label = statements[k].label
                        /\ \A m \in 1..(j - 1) : statements[m].label # statements[k].label

Redefined(label) == TranslationError("label [" \o label \o "] redefined")

\* the file is read to its end
ParseDone == pc # "parse_file" \/ (raised = NoError /\ i > Len(lines))

\* what holds of every run in which statement d defines a label again:
\* the first definition's entry stands, passes 3 and 4 do not run, nothing
\* is written
DuplicateStops(d) ==
    /\ pc \in {"parse_file", "translate_statements"}
    /\ pc = "translate_statements" => i <= d
    /\ InTable(symbol_table, statements[d].label)
          => Lookup(symbol_table, statements[d].label) = PyInt(FirstDefinition(d) - 1)
    /\ \A k \in 1..Len(statements) :
          statements[k].address = None /\ statements[k].op_code = None
    /\ address = 512
    /\ outfile = NotOpened

\* C4 (as claimed): if two statements carry the same label, pass 2 stops with
\* the error 'label redefined' at the second of them.
C4_RedefinedAtSecond ==
    (ParseDone /\ SecondDefinition # 0) =>
        /\ DuplicateStops(SecondDefinition)
        /\ raised # NoError =>
              /\ i = SecondDefinition
              /\ raised = Redefined(statements[SecondDefinition].label)

\* C4 (amended): if two statements carry the same label, pass 2 stops at the
\* second of them at the latest, with the first definition's entry standing,
\* passes 3 and 4 not run and nothing written; it stops at the second with
\* 'label redefined' whenever translate() itself raised nothing up to there,
\* and otherwise with the error translate() raised.
C4_StopsBySecond ==
    (ParseDone /\ SecondDefinition # 0) =>
        /\ DuplicateStops(SecondDefinition)
        /\ raised # NoError =>
              \/ /\ i = SecondDefinition
                 /\ raised = Redefined(statements[SecondDefinition].label)
              \/ /\ i <= SecondDefinition
                 /\ raised = translate(statements[i]).raised

\* C4 (witness): pass 2 has stopped at a redefinition
C4_Witness ==
    /\ SecondDefinition # 0
    /\ pc = "translate_statements"
    /\ i = SecondDefinition
    /\ raised = Redefined(statements[SecondDefinition].label)

\* C5: bytes are in the output file only when no pass and no byte conversion
\* failed, every instruction and pseudo operation has its final op code, and
\* the bytes are those of all of them; a run that an error ended has written
\* none.
C5_NoPartialOutput ==
    /\ raised # NoError => outfile.bytes = <<>>
    /\ outfile.bytes # <<>> =>
          /\ pc = "done"
          /\ \A k \in 1..Len(statements) :
                IsOperation(statements[k]) => statements[k].op_code # None
          /\ outfile.bytes = machine_codes
    /\ outfile.opened => pc = "save_binary_file" \/ pc = "done"

\* C5 (witness): the byte conversion failed on a later statement after an
\* earlier one was converted, and nothing is written
C5_Witness ==
    /\ pc = "save_binary_file"
    /\ raised.type = "ValueError"
    /\ machine_codes # <<>>
    /\ outfile.bytes = <<>>

RECURSIVE NonBlank(_)
NonBlank(n) == IF n = 0 THEN 0
               ELSE NonBlank(n - 1) + IF BLANK_LINE_REGEX(lines[n]) THEN 0 ELSE 1

\* translate has dealt with the statement
Translated(statement) ==
    statement.comment_only \/ is_pseudo_op(statement) \/ statement.operation # NoOperation

\* C7: the passes follow one another, each over the whole list: a statement
\* is translated or a label seeded only when every line of the file has been
\* parsed; a statement has an address only when every statement is
\* translated and every label seeded; a statement has an op code only when
\* every statement has an address and every entry of the symbol table is an
\* address.
C7_PassOrder ==
    /\ (\/ symbol_table # <<>>
        \/ \E k \in 1..Len(statements) : statements[k].operation # NoOperation)
          => Len(statements) = NonBlank(Len(lines))
    /\ (\E k \in 1..Len(statements) : statements[k].address # None)
          => /\ Len(statements) = NonBlank(Len(lines))
             /\ \A k \in 1..Len(statements) :
                   /\ Translated(statements[k])
                   /\ statements[k].label # None
                         => InTable(symbol_table, statements[k].label)
    /\ (\E k \in 1..Len(statements) : statements[k].op_code # None)
          => /\ \A k \in 1..Len(statements) : statements[k].address # None
             /\ \A e \in 1..Len(symbol_table) :
                   /\ symbol_table[e].value.type = "str"
                   /\ StartsWith(symbol_table[e].value.str, "0x")

\* C7 (witness): pass 4 is half way through a list with a label in it
C7_Witness ==
    /\ pc = "fix_opcodes"
    /\ raised = NoError
    /\ 1 < i /\ i <= Len(statements)
    /\ statements[1].op_code # None
    /\ statements[i].op_code = None
    /\ symbol_table # <<>>

\* the labels of the statements
Labelled == {k \in 1..Len(statements) : statements[k].label # None}

\* C8: after set_addresses the symbol table maps the label of every labelled
\* statement to the address stamped on that statement, and has one entry for
\* each labelled statement and no other.
C8_LabelIsAddress ==
    AddressesDone =>
        /\ \A k \in Labelled :
              /\ InTable(symbol_table, statements[k].label)
              /\ Lookup(symbol_table, statements[k].label) = PyStr(statements[k].address)
        /\ Len(symbol_table) = Cardinality(Labelled)
        /\ \A e \in 1..Len(symbol_table) :
              \E k \in Labelled : statements[k].label = symbol_table[e].label

\* C8 (witness): set_addresses is through a list with two labelled
\* statements, the second of them not at 0x200
C8_Witness ==
    /\ AddressesDone
    /\ Cardinality(Labelled) = 2
    /\ \E k \in Labelled : statements[k].address = "0x202"

\* C9 (as claimed): a run ends by no exception but ParseError and
\* TranslationError.
C9_TwoErrorKinds == raised.type \in {None, "ParseError", "TranslationError"}

\* the hexadecimal digit of a register token, in upper case
RegisterDigit(token) == UpperChar(Char(token, 2))

\* the value a numeric operand token stands for: that of its digits after
\* "$", else the token as it is
SameNumeric(numeric, token) ==
    IF StartsWith(token, "$")
    THEN Int16(numeric) = Int16(SliceFrom(token, 1))
    ELSE numeric = token

\* the slots of a translated instruction are its operand tokens in the
\* order source, target, numeric, the slots the operation declares only
SlotsInOrder(statement, tokens) ==
    /\ statement.operation.source # 0
          => statement.source = RegisterDigit(tokens[1])
    /\ statement.operation.target # 0
          => statement.target = RegisterDigit(tokens[statement.operation.source + 1])
    /\ statement.operation.numeric # 0
          => SameNumeric(statement.numeric,
                         tokens[statement.operation.source
                                + statement.operation.target + 1])

\* the op code of every statement with this mnemonic and these operands is
\* op_code once fix_values has set it
Encodes(mnemonic, operands, op_code) ==
    \A k \in 1..Len(statements) :
        ( /\ FixDone
          /\ statements[k].mnemonic = mnemonic
          /\ statements[k].operands = operands )
        => statements[k].op_code = op_code

\* C10: translate gives the operand tokens to the slots in the order source,
\* target, numeric, using the slots the operation declares only; so
\* SKRNE r1,r2 is 9120, RAND r3,$4F is C34F and DRAW r1,r2,$5 is D125.
C10_OperandOrder ==
    /\ \A k \in 1..Len(statements) :
          ( /\ IsInstruction(statements[k])
            /\ \/ pc = "translate_statements" /\ k < i
               \/ pc = "set_addresses" )
          => SlotsInOrder(statements[k], Split(OrEmpty(statements[k].operands), ","))
    /\ Encodes("SKRNE", "r1,r2", "9120")
    /\ Encodes("RAND", "r3,$4F", "C34F")
    /\ Encodes("DRAW", "r1,r2,$5", "D125")

\* C10 (witness): SKRNE r1,r2 and DRAW r1,r2,$5 are both encoded
C10_Witness ==
    /\ FixDone
    /\ \E k \in 1..Len(statements) : statements[k].op_code = "9120"
    /\ \E k \in 1..Len(statements) : statements[k].op_code = "D125"

\* fix_values has returned from statement k without an exception
Fixed(k) == \/ pc = "fix_opcodes" /\ k < i
            \/ pc \in {"save_binary_file", "done"}

\* value with zeros on its left up to width characters
LeftPadded(value, width) == Repeat("0", width - Len(value)) \o value

\* what a character of the template stands for in the op code of the
\* statement: "s" for the source, "t" for the target, the run of "n" that
\* starts at position first for the padded numeric value, another
\* character for itself
FilledChar(statement, first, j) ==
    IF Char(statement.operation.op, j) = "s" THEN statement.source
    ELSE IF Char(statement.operation.op, j) = "t" THEN statement.target
    ELSE IF Char(statement.operation.op, j) = "n"
    THEN Char(LeftPadded(statement.numeric, statement.operation.numeric), j - first + 1)
    ELSE Char(statement.operation.op, j)

\* the template of the statement with its slots filled
Filled(statement) ==
    FilledChar(statement, IndexIn(statement.operation.op, "n"), 1)
    \o FilledChar(statement, IndexIn(statement.operation.op, "n"), 2)
    \o FilledChar(statement, IndexIn(statement.operation.op, "n"), 3)
    \o FilledChar(statement, IndexIn(statement.operation.op, "n"), 4)

\* C11 (as claimed): the op code fix_values gives an instruction has four
\* characters, each a hexadecimal digit, and is the template with s, t and
\* the run of n replaced by the source, the target and the numeric value
\* padded with zeros on the left to the declared width.
C11_OpCodeHex ==
    \A k \in 1..Len(statements) :
        (IsInstruction(statements[k]) /\ Fixed(k))
        => /\ Len(statements[k].op_code) = 4
           /\ \A j \in 1..Len(statements[k].op_code) :
                 Char(statements[k].op_code, j) \in HexChars
           /\ statements[k].op_code = Filled(statements[k])

\* a slot of the instruction holds more characters than the template gives it
Overflows(statement) ==
    \/ statement.operation.numeric # 0
       /\ Len(statement.numeric) > statement.operation.numeric
    \/ statement.operation.source # 0 /\ Len(statement.source) > 1
    \/ statement.operation.target # 0 /\ Len(statement.target) > 1

\* text occurs in s
Contains(s, text) ==
    \E j \in 1..(Len(s) + 1) : SubSeq(s, j, j + Len(text) - 1) = text

\* C12: fix_values lets no instruction through whose numeric value has more
\* digits than the declared width or whose source or target has more than
\* one: it raises TranslationError on it and the run writes nothing; the op
\* code of an instruction it lets through holds the numeric value whole.
C12_SlotOverflow ==
    /\ \A k \in 1..Len(statements) :
          (IsInstruction(statements[k]) /\ Fixed(k))
          => /\ ~Overflows(statements[k])
             /\ statements[k].operation.numeric # 0
                   => Contains(statements[k].op_code, statements[k].numeric)
    /\ ( /\ pc = "fix_opcodes"
         /\ raised # NoError
         /\ IsInstruction(statements[i])
         /\ Overflows(statements[i]) )
       => /\ raised.type = "TranslationError"
          /\ outfile = NotOpened

\* C12 (witness): pass 4 has stopped with a TranslationError at an
\* instruction whose numeric value has four digits for a slot of three
C12_Witness ==
    /\ pc = "fix_opcodes"
    /\ raised.type = "TranslationError"
    /\ IsInstruction(statements[i])
    /\ statements[i].operation.numeric = 3
    /\ Len(statements[i].numeric) = 4
    /\ outfile = NotOpened

\* the rows of the table that have the mnemonic
Rows(mnemonic) == {k \in 1..Len(OPERATIONS) : OPERATIONS[k].mnemonic = mnemonic}

\* the operand tokens of an operand field: none when it is absent, else
\* one more than it has commas
TokenCount(operands) ==
    IF operands = None \/ operands = "" THEN 0
    ELSE 1 + Cardinality({j \in 1..Len(operands) : Char(operands, j) = ","})

\* translate was called on a statement that is no comment and no pseudo
\* operation
TranslatedInstruction ==
    /\ invoked.method = "translate"
    /\ ~invoked.self.comment_only
    /\ invoked.self.mnemonic \notin {"FCB", "FDB"}

\* C13: translate raises TranslationError on an instruction whose mnemonic
\* is not in the table, and on one whose operand tokens are not as many as
\* the row of its mnemonic says: none for a mnemonic that needs one, one
\* for a mnemonic that needs none.
C13_OperandCount ==
    TranslatedInstruction =>
        /\ Rows(invoked.self.mnemonic) = {} => invoked.raised.type = "TranslationError"
        /\ \A k \in Rows(invoked.self.mnemonic) :
              (\A j \in Rows(invoked.self.mnemonic) : k <= j)
              => ( TokenCount(invoked.self.operands) # OPERATIONS[k].operands
                     => invoked.raised.type = "TranslationError" )
        /\ invoked.raised = NoError
              => \E k \in Rows(invoked.self.mnemonic) :
                    TokenCount(invoked.self.operands) = OPERATIONS[k].operands

\* C13 (witness): translate has raised on a JUMP with no operand
C13_Witness ==
    /\ invoked.method = "translate"
    /\ invoked.self.mnemonic = "JUMP"
    /\ invoked.self.operands = None
    /\ invoked.raised.type = "TranslationError"

\* r or R and one hexadecimal digit
IsRegisterToken(string) ==
    /\ Len(string) = 2
    /\ Char(string, 1) \in {"r", "R"}
    /\ IndexIn("0123456789abcdefABCDEF", Char(string, 2)) > 0

\* the hexadecimal digit in upper case
UpperDigit(c) == Char("0123456789ABCDEFABCDEF", IndexIn("0123456789abcdefABCDEF", c))

\* C14: get_register returns the digit of a token that is r or R and one
\* hexadecimal digit, in upper case, and raises TranslationError on every
\* other token.
C14_RegisterToken ==
    invoked.method = "get_register" =>
        IF IsRegisterToken(invoked.arguments[1])
        THEN /\ invoked.raised = NoError
             /\ invoked.returned = UpperDigit(Char(invoked.arguments[1], 2))
        ELSE /\ invoked.raised.type = "TranslationError"
             /\ invoked.returned = None

\* C14 (witness): get_register has returned B for rb
C14_Witness ==
    /\ invoked.method = "get_register"
    /\ invoked.arguments = <<"rb">>
    /\ invoked.returned = "B"
    /\ invoked.raised = NoError

\* the program of the one line goes through the passes without an
\* exception and the emitter writes these bytes
Yields(line, bytes) ==
    lines = <<line>> =>
        /\ raised = NoError
        /\ pc \in {"save_binary_file", "done"} => machine_codes \in {<<>>, bytes}
        /\ (pc = "done" /\ args.output) => outfile = [opened |-> TRUE, bytes |-> bytes]

\* C15: the passes and the emitter over the one statement AUDIO give the
\* bytes F0 02, over PITCH r1 F1 3A, over PLANE $2 F2 03 and over
\* SAVESUB r1,r6 51 62.
C15_XoChipBytes ==
    /\ Yields("    AUDIO    ; audio statement", <<240, 2>>)
    /\ Yields("    PITCH r1    ; pitch statement", <<241, 58>>)
    /\ Yields("    PLANE $2    ; plane statement", <<242, 3>>)
    /\ Yields("    SAVESUB r1,r6    ; save subset statement", <<81, 98>>)

\* C15 (witness): the bytes of SAVESUB r1,r6 are written
C15_Witness ==
    /\ lines = <<"    SAVESUB r1,r6    ; save subset statement">>
    /\ pc = "done"
    /\ outfile.bytes = <<81, 98>>

\* C16 (as claimed): the passes and the emitter over the one statement
\* LOADSUB r1,r6 give the bytes 51 63, and over SCRU 5 the bytes 00 D5.
C16_LoadsubScru ==
    /\ Yields("    LOADSUB r1,r6    ; load subset statement", <<81, 99>>)
    /\ Yields("    SCRU 5    ; scroll up statement", <<0, 213>>)

\* the slot holds value after the call if it held name before it, and what
\* it held before it if not
SlotReplaced(slot_before, slot_after, name, value) ==
    slot_after = IF slot_before = name THEN value ELSE slot_before

\* C17: replace_label(name, value) sets to value the slots among source,
\* target and numeric that hold name, and leaves the other slots and every
\* other field of the statement as they were.
C17_ReplaceLabelFrame ==
    invoked.method = "replace_label" =>
        /\ SlotReplaced(invoked.self.source, TestStatement.source,
                        invoked.arguments[1], invoked.arguments[2])
        /\ SlotReplaced(invoked.self.target, TestStatement.target,
                        invoked.arguments[1], invoked.arguments[2])
        /\ SlotReplaced(invoked.self.numeric, TestStatement.numeric,
                        invoked.arguments[1], invoked.arguments[2])
        /\ TestStatement.label = invoked.self.label
        /\ TestStatement.mnemonic = invoked.self.mnemonic
        /\ TestStatement.operands = invoked.self.operands
        /\ TestStatement.address = invoked.self.address
        /\ TestStatement.op_code = invoked.self.op_code
        /\ TestStatement.operation = invoked.self.operation
        /\ TestStatement.comment = invoked.self.comment
        /\ TestStatement.empty = invoked.self.empty
        /\ TestStatement.comment_only = invoked.self.comment_only
        /\ TestStatement.size = invoked.self.size

\* C17 (witness): replace_label has replaced the source, which held the
\* name, and left the target, which held something else
C17_Witness ==
    /\ invoked.method = "replace_label"
    /\ invoked.self.source = invoked.arguments[1]
    /\ TestStatement.source = invoked.arguments[2]
    /\ invoked.self.target \notin {None, invoked.arguments[1]}
    /\ TestStatement.target = invoked.self.target
    /\ invoked.self.operands # None

\* C19: translate on a statement whose mnemonic is FCB or FDB raises
\* TranslationError when the statement has no operand field, and when it
\* has one returns with the statement as it was: no operation, no slot, no
\* address and no size set.
C19_PseudoOpTranslate ==
    ( /\ invoked.method = "translate"
      /\ ~invoked.self.comment_only
      /\ invoked.self.mnemonic \in {"FCB", "FDB"} )
    => IF invoked.self.operands = None
       THEN invoked.raised.type = "TranslationError"
       ELSE /\ invoked.raised = NoError
            /\ TestStatement = invoked.self
            /\ TestStatement.operation = NoOperation
            /\ TestStatement.source = None
            /\ TestStatement.target = None
            /\ TestStatement.numeric = None
            /\ TestStatement.address = None
            /\ TestStatement.size = 0

\* C19 (witness): translate has returned from FDB $FFEE
C19_Witness ==
    /\ invoked.method = "translate"
    /\ invoked.self.mnemonic = "FDB"
    /\ invoked.self.operands = "$FFEE"
    /\ invoked.raised = NoError
    /\ TestStatement.op_code = None

\* the line has, from position p on, a mnemonic of c word characters that
\* ends the line or has a blank after it
MnemonicAt(line, p, c) ==
    c >= 1 /\ (p + c > Len(line) \/ Char(line, p + c) \in SpaceChars)

\* parse_line did as C18 says on a line that is neither blank nor a
\* comment, and that begins with a word characters and b blanks after
\* them: with a mnemonic after the blanks it is of the form
\* label? mnemonic operands? comment? and its label and mnemonic are set;
\* without it is of no form and ParseError is raised
FieldsAsClaimed(line, a, b, exception, self) ==
    IF b >= 1 /\ MnemonicAt(line, a + b + 1, Run(line, a + b + 1, WordChars))
    THEN /\ exception = NoError
         /\ ~self.empty
         /\ ~self.comment_only
         /\ self.label = OrNone(SubSeq(line, 1, a))
         /\ self.mnemonic = SubSeq(line, a + b + 1,
                                   a + b + Run(line, a + b + 1, WordChars))
    ELSE exception.type = "ParseError"

\* parse_line did as C18 says on the line, whose first blanks are as many
\* as lead
ParsedAsClaimed(line, lead, exception, self) ==
    IF lead = Len(line)
    THEN exception = NoError /\ self = NewStatement
    ELSE IF Char(line, lead + 1) = "#"
    THEN /\ exception = NoError
         /\ self = [NewStatement EXCEPT !.empty = FALSE, !.comment_only = TRUE,
                                        !.comment = self.comment]
         /\ self.comment # None
    ELSE FieldsAsClaimed(line, Run(line, 1, WordChars),
                         Run(line, Run(line, 1, WordChars) + 1, SpaceChars),
                         exception, self)

\* C18 (as claimed): parse_line leaves the statement empty on a line of
\* blanks, makes a comment of a line whose first character after the
\* blanks is #, sets the fields of a line of the form
\* label? mnemonic operands? comment?, and raises ParseError on every
\* other line.
C18_ThreeShapes ==
    invoked.method = "parse_line" =>
        ParsedAsClaimed(invoked.arguments[1], Run(invoked.arguments[1], 1, SpaceChars),
                        invoked.raised, TestStatement)

\* the statement is an FDB whose operand is a literal $v
FdbLiteral(statement) ==
    /\ IsOperation(statement)
    /\ statement.mnemonic = FDB
    /\ StartsWith(OrEmpty(statement.operands), "$")

\* the emitter makes of the op code the high byte and the low byte of the
\* number n, which int(text, 16) returned, if n is in 0..0xFFFF
HighThenLow(op_code, n) ==
    (n.ok /\ n.value \in 0..65535)
    => MachineCodes(op_code, 0) = Returned(NoError, <<n.value \div 256, n.value % 256>>)

\* C20 (as claimed): for an FDB statement whose operand is a literal $v
\* with 0 <= v <= 0xFFFF the emitter produces two bytes, the high byte of
\* v and then its low byte, however the literal is written.
C20_FdbTwoBytes ==
    \A k \in 1..Len(statements) :
        (Fixed(k) /\ FdbLiteral(statements[k]))
        => HighThenLow(statements[k].op_code,
                       Int16(SliceFrom(statements[k].operands, 1)))

\* the number n, which int(text, 16) returned, is more than a pseudo
\* operation of the mnemonic holds: a byte for FCB, two bytes for FDB
TooWide(mnemonic, n) ==
    /\ n.ok
    /\ n.value > (IF mnemonic = FCB THEN 255 ELSE 65535)

\* C21 (as claimed): an FCB whose literal is more than 0xFF and an FDB
\* whose literal is more than 0xFFFF do not get through fix_values, which
\* raises TranslationError, and no byte of the program is written.
C21_PseudoOpWidth ==
    \A k \in 1..Len(statements) :
        ( /\ IsOperation(statements[k])
          /\ is_pseudo_op(statements[k])
          /\ StartsWith(OrEmpty(statements[k].operands), "$")
          /\ TooWide(statements[k].mnemonic,
                     Int16(SliceFrom(OrEmpty(statements[k].operands), 1))) )
        => /\ ~Fixed(k)
           /\ (pc = "fix_opcodes" /\ i = k /\ raised # NoError)
                 => raised.type = "TranslationError"
           /\ outfile.bytes = <<>>

\* statement k is a pseudo operation whose operand is the label that
\* statement d, and no other, defines
PseudoOpNames(k, d) ==
    /\ IsOperation(statements[k])
    /\ is_pseudo_op(statements[k])
    /\ statements[k].operands # None
    /\ statements[k].operands = statements[d].label
    /\ Definitions(statements[d].label) = {d}

\* C22 (as claimed): in pass 4 a pseudo operation whose operand is a label
\* defined in the program is given the address of that label as its
\* value, and fix_values does not raise on it.
C22_PseudoOpLabel ==
    \A k \in 1..Len(statements) : \A d \in 1..Len(statements) :
        PseudoOpNames(k, d)
        => /\ ~(pc = "fix_opcodes" /\ i = k /\ raised # NoError)
           /\ Fixed(k) => statements[k].op_code = SliceFrom(statements[d].address, 2)

\* C23 (as claimed): translate on a statement that is blank, be it new or
\* parsed from a line of blanks, or that is a comment, raises nothing and
\* leaves every field of the statement as it was.
C23_TranslateNoOp ==
    ( /\ invoked.method = "translate"
      /\ is_empty(invoked.self) \/ invoked.self.comment_only )
    => /\ invoked.raised = NoError
       /\ TestStatement = invoked.self

\* the step is the turn of the loop of set_addresses on a comment
CommentTurn ==
    /\ pc = "set_addresses"
    /\ pc' = "set_addresses"
    /\ i <= Len(statements)
    /\ i' = i + 1
    /\ statements[i].comment_only

DeclaredSlots(row) == row.source + row.target + IF row.numeric # 0 THEN 1 ELSE 0

\* every operand token of the operand field is a register
AllRegisters(operands) ==
    \A j \in 1..TokenCount(operands) : IsRegisterToken(Split(operands, ",")[j])

\* C25 (as claimed): the operand count of the row of every mnemonic,
\* SHR and SHL included, is the number of slots the row declares; so
\* translate never reads past the end of the token list, and it succeeds
\* on a statement whose tokens are registers, as many as its row says,
\* when the row has no numeric slot.
C25_TableConsistent ==
    TranslatedInstruction =>
        /\ invoked.raised.type # "IndexError"
        /\ \A k \in Rows(invoked.self.mnemonic) :
              /\ OPERATIONS[k].operands = DeclaredSlots(OPERATIONS[k])
              /\ ( /\ OPERATIONS[k].numeric = 0
                    /\ TokenCount(invoked.self.operands) = OPERATIONS[k].operands
                    /\ AllRegisters(OrEmpty(invoked.self.operands)) )
                  => invoked.raised = NoError

\* the slots that translate filled from a register token or from a `$`
\* literal hold what the token stands for
LiteralSlotsKept(statement, tokens) ==
    /\ statement.operation.source # 0
          => statement.source = RegisterDigit(tokens[1])
    /\ statement.operation.target # 0
          => statement.target = RegisterDigit(tokens[statement.operation.source + 1])
    /\ ( /\ statement.operation.numeric # 0
          /\ StartsWith(NumericToken(statement), "$") )
          => SameNumeric(statement.numeric, NumericToken(statement))

\* the loop of fix_opcodes over the symbol table has run on statement k
LabelsReplaced(k) ==
    \/ Fixed(k)
    \/ pc = "fix_opcodes" /\ i = k /\ raised # NoError

\* C26 (as claimed): the substitution of labels in fix_opcodes leaves a
\* numeric slot that came from a `$` literal and a source or target slot
\* that came from a register as they were, whatever labels the symbol
\* table has, one named A or 1 included; so JUMP $A is always 100A.
C26_LiteralsKept ==
    /\ \A k \in 1..Len(statements) :
          (IsInstruction(statements[k]) /\ LabelsReplaced(k))
          => LiteralSlotsKept(statements[k], Split(OrEmpty(statements[k].operands), ","))
    /\ Encodes("JUMP", "$A", "100A")

\* the numeric slot of the statement holds the digits of the address that
\* the symbol table has for the label its operand token names
OneLookup(statement, table) ==
    ( /\ statement.operation.numeric # 0
      /\ InTable(table, NumericToken(statement)) )
    => statement.numeric = SliceFrom(Lookup(table, NumericToken(statement)).str, 2)

\* C27 (as claimed): the substitution of a label is one lookup: once the
\* loop of fix_opcodes has run on a statement, its numeric slot holds the
\* address of the label that its operand token names, and an address that
\* was put in is not replaced again, not even when a label of the program
\* is named as the digits of that address are.
C27_NoChain ==
    \A k \in 1..Len(statements) :
        (IsInstruction(statements[k]) /\ LabelsReplaced(k))
        => OneLookup(statements[k], symbol_table)

\* the numeric operand of the instruction is a word that no statement of
\* the program defines as a label
UndefinedReference(statement) ==
    /\ IsInstruction(statement)
    /\ statement.operation.numeric # 0
    /\ NumericToken(statement) # ""
    /\ \A j \in 1..Len(NumericToken(statement)) :
          Char(NumericToken(statement), j) \in WordChars
    /\ Definitions(NumericToken(statement)) = {}

\* C28 (as claimed): pass 4 does not get past an instruction whose numeric
\* operand is a word that is no label of the program: fix_opcodes fails on
\* it with TranslationError, and the word is not copied into an op code,
\* be it of hexadecimal digits as in JUMP abc or not as in JUMP foo.
C28_UndefinedLabel ==
    \A k \in 1..Len(statements) :
        UndefinedReference(statements[k])
        => /\ ~Fixed(k)
           /\ (pc = "fix_opcodes" /\ i = k /\ raised # NoError)
                 => raised.type = "TranslationError"
           /\ statements[k].op_code = None

\* the digits of the address that the table has for the label
AddressDigits(table, label) == SliceFrom(Lookup(table, label).str, 2)

\* fix_opcodes was called on an instruction whose numeric operand names a
\* label of the symbol table
LabelReference ==
    /\ invoked.method = "fix_opcodes"
    /\ IsInstruction(invoked.self)
    /\ invoked.self.operation.numeric # 0
    /\ InTable(symbol_table, NumericToken(invoked.self))

\* C29 (as claimed): an instruction whose numeric operand names a label is
\* encoded if and only if the address of the label has no more
\* hexadecimal digits than the slot is wide, and is refused with
\* TranslationError if not: a reference in a slot of one or two digits to
\* a label at 0x200 is refused, one in a slot of three digits is encoded
\* when the label is below 0x1000 and refused when it is at 0x1000.
C29_LabelFits ==
    LabelReference =>
        /\ invoked.raised = NoError
              <=> Len(AddressDigits(symbol_table, NumericToken(invoked.self)))
                     <= invoked.self.operation.numeric
        /\ invoked.raised # NoError => invoked.raised.type = "TranslationError"

====
